---- MODULE Spec2Model ----
(***************************************************************************)
(* Model of src/src/Benchmark.cpp: an MPI program in which every rank      *)
(* parses its command line, connects to HEPnOS, resolves the shared run    *)
(* from a descriptor broadcast by rank 0, stores one product per           *)
(* configured size, loads them back and compares, and rank 0 finally shuts *)
(* the service down.                                                       *)
(*                                                                         *)
(* Strings are sequences of one-character strings.  The external services  *)
(* (MPI, HEPnOS, TCLAP, the file system) are modelled by their interface   *)
(* behaviour; every call that can fail chooses its outcome                 *)
(* nondeterministically.                                                   *)
(***************************************************************************)
EXTENDS Integers, Sequences, FiniteSets, TLC

\* Number of MPI processes of the job (g_size).
NumProcs == 2

\* Largest number of fraction digits of a wait-range number the model scales.
MaxFrac == 1

\* Largest integer part of the wait-range numbers tried (10 is tried as well).
MaxWaitInt == 1

\* Longest --product-sizes string tried.
MaxSizeLen == 5

\* Rank of the coordinator: the root of MPI_Bcast and the rank in `g_rank == 0`.
Root == 0

\* Run number passed to createRun.
RunNumber == 0

\* Seed of a default-constructed std::mt19937 (`static std::mt19937 g_mte`).
DefaultSeed == 5489

\* Modulus of the fill pattern of a dummy product.
ByteMod == 256

Procs == 0 .. (NumProcs - 1)

\* ------------------------------------------------------------------------
\* Strings

Digits == {"0", "1", "2", "3", "4", "5", "6", "7", "8", "9"}

DigitVal(c) ==
    CASE c = "0" -> 0 [] c = "1" -> 1 [] c = "2" -> 2 [] c = "3" -> 3
      [] c = "4" -> 4 [] c = "5" -> 5 [] c = "6" -> 6 [] c = "7" -> 7
      [] c = "8" -> 8 [] c = "9" -> 9

AllDigits(s) == \A i \in 1 .. Len(s) : s[i] \in Digits

\* Position of the first occurrence of c in s, or Len(s) + 1 when absent.
FirstPos(s, c) ==
    IF \E i \in 1 .. Len(s) : s[i] = c
    THEN CHOOSE i \in 1 .. Len(s) : s[i] = c /\ \A j \in 1 .. (i - 1) : s[j] # c
    ELSE Len(s) + 1

RECURSIVE Pow10(_)
Pow10(n) == IF n = 0 THEN 1 ELSE 10 * Pow10(n - 1)

RECURSIVE DecVal(_, _)
\* Value of the digit string s read after the accumulator acc.
DecVal(s, acc) ==
    IF s = << >> THEN acc ELSE DecVal(Tail(s), acc * 10 + DigitVal(Head(s)))

\* ------------------------------------------------------------------------
\* parse_product_sizes: `for(size_t i; ss >> i;)` with an optional ',' skipped
\* after every number.  The extraction reads a maximal run of digits; when
\* the next character is not a digit it fails and the loop ends.

RECURSIVE EndOfDigits(_, _)
EndOfDigits(s, i) ==
    IF i <= Len(s) /\ s[i] \in Digits THEN EndOfDigits(s, i + 1) ELSE i

RECURSIVE SizesFrom(_, _, _)
SizesFrom(s, i, result) ==
    IF i > Len(s) \/ s[i] \notin Digits
    THEN result
    ELSE LET j == EndOfDigits(s, i)
             k == IF j <= Len(s) /\ s[j] = "," THEN j + 1 ELSE j
         IN  SizesFrom(s, k, Append(result, DecVal(SubSeq(s, i, j - 1), 0)))

\* The loop without `ss.ignore()`: the extraction after the first number
\* meets the ',' and fails.
parse_product_sizes_NoIgnore(s) ==
    IF s # << >> /\ s[1] \in Digits
    THEN <<DecVal(SubSeq(s, 1, EndOfDigits(s, 1) - 1), 0)>>
    ELSE << >>

parse_product_sizes(s) == SizesFrom(s, 1, << >>)

\* ------------------------------------------------------------------------
\* parse_wait_range

\* (0|([1-9][0-9]*))(\.[0-9]+)?
MatchNum(s) ==
    LET d  == FirstPos(s, ".")
        ip == SubSeq(s, 1, d - 1)
        fp == SubSeq(s, d + 1, Len(s))
    IN  /\ Len(ip) >= 1
        /\ AllDigits(ip)
        /\ (ip = <<"0">> \/ ip[1] # "0")
        /\ (d <= Len(s) => Len(fp) >= 1 /\ AllDigits(fp))

\* ^NUM(,NUM)?$ : std::regex_search succeeds.
RegexMatches(s) ==
    LET c == FirstPos(s, ",")
    IN  IF c > Len(s)
        THEN MatchNum(s)
        ELSE MatchNum(SubSeq(s, 1, c - 1)) /\ MatchNum(SubSeq(s, c + 1, Len(s)))

\* atof of a matched number, in units of 10^-MaxFrac.
Atof(s) ==
    LET d  == FirstPos(s, ".")
        ip == SubSeq(s, 1, d - 1)
        fp == SubSeq(s, d + 1, Len(s))
    IN  DecVal(ip, 0) * Pow10(MaxFrac)
          + (IF Len(fp) <= MaxFrac THEN DecVal(fp, 0) * Pow10(MaxFrac - Len(fp))
             ELSE DecVal(SubSeq(fp, 1, MaxFrac), 0))

\* The range computed by lines 130-141 (the value of `range` at line 149);
\* it stays {0.0, 0.0} when the expression does not match.
RangeOf(s) ==
    IF RegexMatches(s)
    THEN LET c     == FirstPos(s, ",")
             first == Atof(SubSeq(s, 1, c - 1))
         IN  IF c <= Len(s)
             THEN <<first, Atof(SubSeq(s, c + 1, Len(s)))>>
             ELSE <<first, first>>
    ELSE <<0, 0>>

\* parse_wait_range with the order check made on rank 0 only.
parse_wait_range_RootOnly(s, r) ==
    LET range == RangeOf(s)
    IN  IF ~RegexMatches(s) /\ r = Root
        THEN [abort |-> TRUE, crit |-> <<"invalid_wait_range">>, range |-> range]
        ELSE IF range[2] < range[1] /\ r = Root
        THEN [abort |-> TRUE, crit |-> <<"wait_range_order">>, range |-> range]
        ELSE [abort |-> FALSE, crit |-> << >>, range |-> range]

\* Outcome of parse_wait_range on rank r: the diagnostics it logs, whether it
\* calls MPI_Abort, and the range it returns when it does not.
parse_wait_range(s, r) ==
    LET range == RangeOf(s)
    IN  IF ~RegexMatches(s) /\ r = Root
        THEN [abort |-> TRUE, crit |-> <<"invalid_wait_range">>, range |-> range]
        ELSE IF range[2] < range[1]
        THEN [abort |-> TRUE, crit |-> <<"wait_range_order">>, range |-> range]
        ELSE [abort |-> FALSE, crit |-> << >>, range |-> range]

\* ------------------------------------------------------------------------
\* Command lines and the environment

S_empty == << >>
S_2_0   == <<"2", ",", "0">>
W_0_0   == <<"0", ",", "0">>
W_2_1   == <<"2", ",", "1">>
W_x     == <<"x">>
W_1p5   == <<"1", ".", "5">>
L_p     == <<"p">>

\* The command lines a rank may be started with.  `accepted` is FALSE for a
\* command line on which cmd.parse throws TCLAP::ArgException (the values
\* are then never read).  A job may give its ranks different command lines.
ArgvSet ==
    { [accepted |-> FALSE, sizes |-> S_empty, wait |-> W_0_0, verbose |-> "info",
       label |-> L_p],
      [accepted |-> TRUE, sizes |-> S_empty, wait |-> W_0_0, verbose |-> "info",
       label |-> L_p],
      [accepted |-> TRUE, sizes |-> S_2_0, wait |-> W_0_0, verbose |-> "info",
       label |-> L_p],
      [accepted |-> TRUE, sizes |-> S_2_0, wait |-> W_2_1, verbose |-> "info",
       label |-> L_p],
      [accepted |-> TRUE, sizes |-> S_2_0, wait |-> W_x, verbose |-> "info",
       label |-> L_p],
      [accepted |-> TRUE, sizes |-> S_2_0, wait |-> W_1p5, verbose |-> "off",
       label |-> L_p] }

\* spdlog::level::level_enum
LevelNum(l) ==
    CASE l = "trace" -> 0 [] l = "debug" -> 1 [] l = "info" -> 2
      [] l = "warning" -> 3 [] l = "error" -> 4 [] l = "critical" -> 5
      [] l = "off" -> 6

\* One executed log statement; `shown` tells whether the level in effect
\* let it through.
LogLine(inEffect, lvl, msg) ==
    [lvl |-> lvl, msg |-> msg, shown |-> LevelNum(lvl) >= LevelNum(inEffect)]

\* Contents of a default-constructed hepnos::RunDescriptor.
Uninit == [dataset |-> "indeterminate", run |-> -1]

\* Run::toDescriptor and Run::fromDescriptor
toDescriptor(r) == [dataset |-> r.dataset, run |-> r.number]
fromDescriptor(d) == [dataset |-> d.dataset, number |-> d.run]

\* The run rank 0 creates: dataset.createRun(0) in the dataset g_input_dataset.
CreatedRun == [dataset |-> "g_input_dataset", number |-> RunNumber]

NoRun == [dataset |-> "none", number |-> -1]
NoSubRun == [run |-> NoRun, number |-> -1]

\* Products whose bytes count from 1 instead of 0.
MakeProductsFromOne(sizes) ==
    [i \in 1 .. Len(sizes) |-> [j \in 1 .. sizes[i] |-> j % ByteMod]]

\* lines 187-193: one product per size, byte j of each equal to j % 256.
MakeProducts(sizes) ==
    [i \in 1 .. Len(sizes) |-> [j \in 1 .. sizes[i] |-> (j - 1) % ByteMod]]

\* A product the service returns that is not the one that was stored.
Corrupted(product) == Append(product, ByteMod - 1)

\* ------------------------------------------------------------------------
\* State

VARIABLES
    argv,             \* argv[p]: the command line of rank p
    pc,               \* pc[p]: where rank p is in main / run_benchmark
    g_product_sizes,  \* per-rank globals set by parse_arguments
    g_product_label,
    g_wait_range,
    g_logging_level,
    log,              \* log[p]: the critical/error/info statements rank p executed
    colls,            \* colls[p]: the collectives rank p has called, in order
    abortCalled,      \* some rank has called MPI_Abort(MPI_COMM_WORLD, ..)
    connected,        \* connected[p]: DataStore::connect returned on rank p
    asyncAlive,       \* asyncAlive[p]: rank p is inside the AsyncEngine scope
    createdBy,        \* ranks that ran createDataSet + createRun, in order
    run_descriptor,   \* run_descriptor[p]: the local descriptor buffer
    bcast_buf,        \* the root's buffer as carried by MPI_Bcast
    run,              \* run[p], subrun[p]: the resolved handles
    subrun,
    products,         \* products[p]: the dummy products of rank p
    evn,              \* evn[p]: the event number of the running loop
    tmp_product,      \* tmp_product[p]: the product of the latest load
    db,               \* the service: <<subrun, event, product>> entries
    shutdownBy,       \* ranks that called datastore.shutdown(), in order
    g_mte,            \* g_mte[p]: the seed of the random engine of rank p
    calls             \* calls[p]: the sub-run, store and load calls rank p completed

vars == <<argv, pc, g_product_sizes, g_product_label, g_wait_range, g_logging_level, log, colls,
          abortCalled, connected, asyncAlive, createdBy, run_descriptor,
          bcast_buf, run, subrun, products, evn, tmp_product, db, shutdownBy, g_mte, calls>>

cfgVars == <<g_product_sizes, g_product_label, g_wait_range, g_logging_level>>
hepVars == <<connected, asyncAlive, createdBy, run_descriptor, bcast_buf, run,
             subrun, products, evn, tmp_product, db, shutdownBy, g_mte, calls>>

Terminal == {"done", "aborted", "crashed", "killed"}

Init ==
    /\ argv \in [Procs -> ArgvSet]
    /\ pc = [p \in Procs |-> "parse"]
    /\ g_product_sizes = [p \in Procs |-> << >>]
    /\ g_product_label = [p \in Procs |-> << >>]
    /\ g_wait_range = [p \in Procs |-> <<0, 0>>]
    /\ g_logging_level = [p \in Procs |-> "trace"]
    /\ log = [p \in Procs |-> << >>]
    /\ colls = [p \in Procs |-> << >>]
    /\ abortCalled = FALSE
    /\ connected = [p \in Procs |-> FALSE]
    /\ asyncAlive = [p \in Procs |-> FALSE]
    /\ createdBy = << >>
    /\ run_descriptor = [p \in Procs |-> Uninit]
    /\ bcast_buf = Uninit
    /\ run = [p \in Procs |-> NoRun]
    /\ subrun = [p \in Procs |-> NoSubRun]
    /\ products = [p \in Procs |-> << >>]
    /\ evn = [p \in Procs |-> 0]
    /\ tmp_product = [p \in Procs |-> << >>]
    /\ db = {}
    /\ shutdownBy = << >>
    /\ g_mte = [p \in Procs |-> DefaultSeed]
    /\ calls = [p \in Procs |-> << >>]

\* The spdlog level in effect on rank p: the default until line 47.
InEffect(p) == IF pc[p] = "parse" THEN "info" ELSE g_logging_level[p]

\* A rank test that every rank passes.
EveryRankCoordinates(p) == p \in Procs

\* `g_rank == 0`
IsCoordinator(p) == p = Root

\* spdlog::critical(..); MPI_Abort(MPI_COMM_WORLD, ..): the caller does not
\* return; the other ranks are terminated later (Kill).
LogAndAbort(p, msgs) ==
    /\ log' = [log EXCEPT ![p] =
                  @ \o [i \in 1 .. Len(msgs) |-> LogLine(InEffect(p), "critical", msgs[i])]]
    /\ abortCalled' = TRUE
    /\ pc' = [pc EXCEPT ![p] = "aborted"]

\* An exception no handler catches: std::terminate ends this process only.
Uncaught(p) == pc' = [pc EXCEPT ![p] = "crashed"]

\* The MPI runtime terminates a rank of an aborted job.
Kill(p) ==
    /\ abortCalled
    /\ pc[p] \notin Terminal
    /\ pc' = [pc EXCEPT ![p] = "killed"]
    /\ UNCHANGED <<argv, cfgVars, log, colls, abortCalled, hepVars>>

\* ------------------------------------------------------------------------
\* main, lines 45-57: parse_arguments and spdlog::set_level

check_file_exists(p, good) ==
    IF good THEN [abort |-> FALSE, crit |-> << >>]
    ELSE [abort |-> TRUE, crit |-> <<"file_does_not_exist">>]

ParseArguments(p) ==
    /\ pc[p] = "parse"
    /\ UNCHANGED <<argv, colls, hepVars>>
    /\ LET a == argv[p] IN
       IF ~a.accepted
       THEN \* catch(TCLAP::ArgException&)
            IF IsCoordinator(p)
            THEN LogAndAbort(p, <<"arg_exception">>) /\ UNCHANGED cfgVars
            ELSE /\ pc' = [pc EXCEPT ![p] = "barrier_init"]
                 /\ UNCHANGED <<cfgVars, log, abortCalled>>
       ELSE \E good \in BOOLEAN :
            LET f  == check_file_exists(p, good)
                wr == parse_wait_range(a.wait, p)
            IN  IF f.abort
                THEN LogAndAbort(p, f.crit) /\ UNCHANGED cfgVars
                ELSE /\ g_product_label' = [g_product_label EXCEPT ![p] = a.label]
                     /\ g_product_sizes' =
                            [g_product_sizes EXCEPT ![p] = parse_product_sizes(a.sizes)]
                     /\ IF wr.abort
                        THEN /\ LogAndAbort(p, wr.crit)
                             /\ g_logging_level' =
                                    [g_logging_level EXCEPT ![p] = a.verbose]
                             /\ UNCHANGED g_wait_range
                        ELSE /\ g_wait_range' = [g_wait_range EXCEPT ![p] = wr.range]
                             /\ g_logging_level' =
                                    [g_logging_level EXCEPT ![p] = a.verbose]
                             /\ pc' = [pc EXCEPT ![p] = "barrier_init"]
                             /\ UNCHANGED <<log, abortCalled>>

\* ------------------------------------------------------------------------
\* Collectives.  MPI matches the collectives of a communicator by the order
\* in which each rank calls them: the k-th call of one rank goes with the
\* k-th call of every other.

Arrived(k) == {q \in Procs : Len(colls[q]) >= k}

\* Barriers of which one does not wait for the other ranks: the initial one
\* (line 59), the one before the store loop (line 195), the one between the
\* loops (line 207), the final one (line 226).
BarrierSkipsInit(k) == k = 1 \/ Arrived(k) = Procs
BarrierSkipsPreStore(k) == k = 3 \/ Arrived(k) = Procs
BarrierSkipsLoad(k) == k = 4 \/ Arrived(k) = Procs
BarrierSkipsFinal(k) == k = 5 \/ Arrived(k) = Procs

\* MPI_Barrier returns once every rank of the communicator has entered it.
BarrierReady(k) == Arrived(k) = Procs

\* A broadcast that returns on a receiver whether or not the root has sent.
BcastReadyEarly(k) == TRUE

\* MPI_Bcast returns on a rank once the root has entered it (a rank need not
\* wait for the other receivers).
BcastReady(k) == Root \in Arrived(k)

EnterCollective(p, name, from, to) ==
    /\ pc[p] = from
    /\ colls' = [colls EXCEPT ![p] = Append(@, name)]
    /\ pc' = [pc EXCEPT ![p] = to]

LeaveBarrier(p, from, to) ==
    /\ pc[p] = from
    /\ BarrierReady(Len(colls[p]))
    /\ pc' = [pc EXCEPT ![p] = to]

\* line 59
BarrierInitEnter(p) ==
    /\ EnterCollective(p, "barrier", "barrier_init", "in_barrier_init")
    /\ UNCHANGED <<argv, cfgVars, log, abortCalled, hepVars>>

\* lines 59-64: the barrier returns, g_mte = std::mt19937(g_rank).
BarrierInitLeave(p) ==
    /\ LeaveBarrier(p, "in_barrier_init", "connect")
    /\ g_mte' = [g_mte EXCEPT ![p] = p]
    /\ UNCHANGED <<argv, cfgVars, log, colls, abortCalled, connected, asyncAlive,
                   createdBy, run_descriptor, bcast_buf, run, subrun, products,
                   evn, tmp_product, db, shutdownBy, calls>>

\* ------------------------------------------------------------------------
\* run_benchmark

\* Outcomes of a HEPnOS call that may throw hepnos::Exception.
Outcomes == {"ok", "throws"}

\* lines 161-174: DataStore::connect inside try/catch, then the AsyncEngine.
Connect(p) ==
    /\ pc[p] = "connect"
    /\ UNCHANGED <<argv, cfgVars, colls, createdBy, run_descriptor, bcast_buf,
                   run, subrun, products, evn, tmp_product, db, shutdownBy, g_mte, calls>>
    /\ \E o \in Outcomes :
         IF o = "ok"
         THEN /\ connected' = [connected EXCEPT ![p] = TRUE]
              /\ asyncAlive' = [asyncAlive EXCEPT ![p] = TRUE]
              /\ pc' = [pc EXCEPT ![p] = IF IsCoordinator(p) THEN "create" ELSE "bcast"]
              /\ UNCHANGED <<log, abortCalled>>
         ELSE /\ LogAndAbort(p, <<"could_not_connect">>)
              /\ UNCHANGED <<connected, asyncAlive>>

\* lines 176-181: createDataSet, createRun, toDescriptor; no handler.
CreateRun(p) ==
    /\ pc[p] = "create"
    /\ UNCHANGED <<argv, cfgVars, log, colls, abortCalled, connected, asyncAlive,
                   bcast_buf, run, subrun, products, evn, tmp_product, db,
                   shutdownBy, g_mte, calls>>
    /\ \E o \in Outcomes :
         IF o = "ok"
         THEN /\ createdBy' = Append(createdBy, p)
              /\ run_descriptor' =
                    [run_descriptor EXCEPT
                        ![p] = toDescriptor(CreatedRun)]
              /\ pc' = [pc EXCEPT ![p] = "bcast"]
         ELSE /\ Uncaught(p)
              /\ UNCHANGED <<createdBy, run_descriptor>>

\* line 182: MPI_Bcast(&run_descriptor, .., 0, MPI_COMM_WORLD).  The root
\* hands over the contents of its buffer when it enters.
BcastEnter(p) ==
    /\ EnterCollective(p, "bcast", "bcast", "in_bcast")
    /\ bcast_buf' = IF p = Root THEN run_descriptor[p] ELSE bcast_buf
    /\ UNCHANGED <<argv, cfgVars, log, abortCalled, connected, asyncAlive,
                   createdBy, run_descriptor, run, subrun, products, evn,
                   tmp_product, db, shutdownBy, g_mte, calls>>

BcastLeave(p) ==
    /\ pc[p] = "in_bcast"
    /\ BcastReady(Len(colls[p]))
    /\ run_descriptor' = [run_descriptor EXCEPT ![p] = bcast_buf]
    /\ pc' = [pc EXCEPT ![p] = "resolve"]
    /\ UNCHANGED <<argv, cfgVars, log, colls, abortCalled, connected, asyncAlive,
                   createdBy, bcast_buf, run, subrun, products, evn, tmp_product,
                   db, shutdownBy, g_mte, calls>>

\* A sub-run number that is the same on every rank.
createSubRunShared(r, n) == [run |-> r, number |-> Root]

\* run.createSubRun(n)
createSubRun(r, n) == [run |-> r, number |-> n]

\* One completed call to the service.
Call(op, key, product) == [op |-> op, key |-> key, product |-> product]

\* lines 183-193: Run::fromDescriptor, createSubRun(g_rank), the products.
Resolve(p) ==
    /\ pc[p] = "resolve"
    /\ UNCHANGED <<argv, cfgVars, log, colls, abortCalled, connected, asyncAlive,
                   createdBy, run_descriptor, bcast_buf, evn, tmp_product, db,
                   shutdownBy, g_mte>>
    /\ \E o \in Outcomes :
         IF o = "ok"
         THEN /\ run' = [run EXCEPT ![p] = fromDescriptor(run_descriptor[p])]
              /\ subrun' = [subrun EXCEPT
                               ![p] = createSubRun(fromDescriptor(run_descriptor[p]), p)]
              /\ calls' = [calls EXCEPT
                              ![p] = Append(@, Call("createSubRun",
                                         createSubRun(fromDescriptor(run_descriptor[p]), p),
                                         << >>))]
              /\ products' = [products EXCEPT ![p] = MakeProducts(g_product_sizes[p])]
              /\ pc' = [pc EXCEPT ![p] = "barrier_prestore"]
         ELSE /\ Uncaught(p)
              /\ UNCHANGED <<run, subrun, products, calls>>

\* line 195
BarrierPreStoreEnter(p) ==
    /\ EnterCollective(p, "barrier", "barrier_prestore", "in_barrier_prestore")
    /\ UNCHANGED <<argv, cfgVars, log, abortCalled, hepVars>>

BarrierPreStoreLeave(p) ==
    /\ LeaveBarrier(p, "in_barrier_prestore", "store")
    /\ UNCHANGED <<argv, cfgVars, log, colls, abortCalled, hepVars>>

\* The service holds entries <<subrun, event, label, product>>; the key of an
\* entry is its first three components.
KeyOf(x) == <<x[1], x[2], x[3]>>

\* Entries of the service other than the one under key k.
Others(k) == {x \in db : KeyOf(x) # k}

\* lines 199-201: subrun.createEvent(evn), event.store(g_product_label, ..)
StoreKey(p) == <<subrun[p], evn[p], g_product_label[p]>>

\* lines 198-205, one iteration: createEvent(evn), event.store, the report.
Store(p) ==
    /\ pc[p] = "store"
    /\ evn[p] < Len(products[p])
    /\ UNCHANGED <<argv, cfgVars, colls, abortCalled, connected, asyncAlive,
                   createdBy, run_descriptor, bcast_buf, run, subrun, products,
                   tmp_product, shutdownBy, g_mte>>
    /\ \E o \in Outcomes :
         IF o = "ok"
         THEN LET product == products[p][evn[p] + 1] IN
              /\ db' = Others(StoreKey(p)) \cup {StoreKey(p) \o <<product>>}
              /\ calls' = [calls EXCEPT
                              ![p] = Append(@, Call("store", StoreKey(p), product))]
              /\ log' = [log EXCEPT ![p] =
                            Append(@, LogLine(InEffect(p), "info", <<"store", Len(product)>>))]
              /\ evn' = [evn EXCEPT ![p] = @ + 1]
              /\ pc' = pc
         ELSE /\ Uncaught(p)
              /\ UNCHANGED <<db, log, evn, calls>>

\* The barrier of line 207 called from inside the store loop, so that a rank
\* with no product never calls it.
BarrierLoadEnterInLoop(p) ==
    /\ evn[p] = Len(products[p])
    /\ evn[p] > 0
    /\ EnterCollective(p, "barrier", "store", "in_barrier_load")
    /\ UNCHANGED <<argv, cfgVars, log, abortCalled, hepVars>>

\* line 207
BarrierLoadEnter(p) ==
    /\ evn[p] = Len(products[p])
    /\ EnterCollective(p, "barrier", "store", "in_barrier_load")
    /\ UNCHANGED <<argv, cfgVars, log, abortCalled, hepVars>>

\* Leaving the barrier of line 207 without the `evn = 0` of line 208.
BarrierLoadLeaveNoReset(p) ==
    /\ LeaveBarrier(p, "in_barrier_load", "load")
    /\ UNCHANGED <<argv, cfgVars, log, colls, abortCalled, hepVars>>

\* lines 207-208: leaving the barrier, then evn = 0.
BarrierLoadLeave(p) ==
    /\ LeaveBarrier(p, "in_barrier_load", "load")
    /\ evn' = [evn EXCEPT ![p] = 0]
    /\ UNCHANGED <<argv, cfgVars, log, colls, abortCalled, connected, asyncAlive,
                   createdBy, run_descriptor, bcast_buf, run, subrun, products,
                   tmp_product, db, shutdownBy, g_mte, calls>>

\* What event.load may put into tmp_product for key k: the product the
\* service holds under that key, or a different one; nothing is filled in
\* when the service holds none.
LoadResults(k) ==
    IF \E x \in db : KeyOf(x) = k
    THEN LET stored == (CHOOSE x \in db : KeyOf(x) = k)[4]
         IN  {stored, Corrupted(stored)}
    ELSE {<< >>}

\* A load that always opens the first event of the sub-run.
LoadKeyFirstEvent(p) == <<subrun[p], 0, g_product_label[p]>>

\* lines 212-215: subrun[evn], event.load(g_product_label, ..)
LoadKey(p) == <<subrun[p], evn[p], g_product_label[p]>>

\* A load loop in which a mismatch is fatal for the group.
LoadFatalMismatch(p) ==
    /\ pc[p] = "load"
    /\ evn[p] < Len(products[p])
    /\ UNCHANGED <<argv, cfgVars, colls, connected, asyncAlive,
                   createdBy, run_descriptor, bcast_buf, run, subrun, products,
                   db, shutdownBy, g_mte>>
    /\ \E tmp \in LoadResults(<<subrun[p], evn[p], g_product_label[p]>>) :
         LET product == products[p][evn[p] + 1] IN
         /\ tmp_product' = [tmp_product EXCEPT ![p] = tmp]
         /\ calls' = [calls EXCEPT
                         ![p] = Append(@, Call("load",
                                    <<subrun[p], evn[p], g_product_label[p]>>, tmp))]
         /\ IF tmp # product
            THEN /\ log' = [log EXCEPT ![p] =
                              Append(@, LogLine(InEffect(p), "error", <<"mismatch", evn[p]>>))]
                 /\ abortCalled' = TRUE
                 /\ pc' = [pc EXCEPT ![p] = "aborted"]
                 /\ evn' = evn
            ELSE /\ log' = [log EXCEPT ![p] =
                              Append(@, LogLine(InEffect(p), "info", <<"load", Len(product)>>))]
                 /\ evn' = [evn EXCEPT ![p] = @ + 1]
                 /\ UNCHANGED <<pc, abortCalled>>

\* lines 211-222, one iteration: subrun[evn], event.load, compare, report.
Load(p) ==
    /\ pc[p] = "load"
    /\ evn[p] < Len(products[p])
    /\ UNCHANGED <<argv, cfgVars, colls, abortCalled, connected, asyncAlive,
                   createdBy, run_descriptor, bcast_buf, run, subrun, products,
                   db, shutdownBy, g_mte>>
    /\ \E o \in Outcomes :
         IF o = "ok"
         THEN \E tmp \in LoadResults(LoadKey(p)) :
              LET product == products[p][evn[p] + 1]
                  err == IF tmp # product
                         THEN <<LogLine(InEffect(p), "error", <<"mismatch", evn[p]>>)>>
                         ELSE << >>
              IN  /\ tmp_product' = [tmp_product EXCEPT ![p] = tmp]
                  /\ calls' = [calls EXCEPT
                                  ![p] = Append(@, Call("load", LoadKey(p), tmp))]
                  /\ log' = [log EXCEPT ![p] =
                                (@ \o err) \o
                                <<LogLine(InEffect(p), "info", <<"load", Len(product)>>)>>]
                  /\ evn' = [evn EXCEPT ![p] = @ + 1]
                  /\ pc' = pc
         ELSE /\ Uncaught(p)
              /\ UNCHANGED <<tmp_product, log, evn, calls>>

\* lines 224-226: the AsyncEngine scope ends, then MPI_Barrier.
BarrierFinalEnter(p) ==
    /\ evn[p] = Len(products[p])
    /\ EnterCollective(p, "barrier", "load", "in_barrier_final")
    /\ asyncAlive' = [asyncAlive EXCEPT ![p] = FALSE]
    /\ UNCHANGED <<argv, cfgVars, log, abortCalled, connected, createdBy,
                   run_descriptor, bcast_buf, run, subrun, products, evn,
                   tmp_product, db, shutdownBy, g_mte, calls>>

BarrierFinalLeave(p) ==
    /\ LeaveBarrier(p, "in_barrier_final",
                    IF IsCoordinator(p) THEN "shutdown" ELSE "finalize")
    /\ UNCHANGED <<argv, cfgVars, log, colls, abortCalled, hepVars>>

\* lines 227-229
Shutdown(p) ==
    /\ pc[p] = "shutdown"
    /\ shutdownBy' = Append(shutdownBy, p)
    /\ pc' = [pc EXCEPT ![p] = "finalize"]
    /\ UNCHANGED <<argv, cfgVars, log, colls, abortCalled, connected, asyncAlive,
                   createdBy, run_descriptor, bcast_buf, run, subrun, products,
                   evn, tmp_product, db, g_mte, calls>>

\* lines 66-67: MPI_Finalize, return 0.
Finalize(p) ==
    /\ pc[p] = "finalize"
    /\ pc' = [pc EXCEPT ![p] = "done"]
    /\ UNCHANGED <<argv, cfgVars, log, colls, abortCalled, hepVars>>

Step(p) ==
    \/ ParseArguments(p)
    \/ BarrierInitEnter(p)
    \/ BarrierInitLeave(p)
    \/ Connect(p)
    \/ CreateRun(p)
    \/ BcastEnter(p)
    \/ BcastLeave(p)
    \/ Resolve(p)
    \/ BarrierPreStoreEnter(p)
    \/ BarrierPreStoreLeave(p)
    \/ Store(p)
    \/ BarrierLoadEnter(p)
    \/ BarrierLoadLeave(p)
    \/ Load(p)
    \/ BarrierFinalEnter(p)
    \/ BarrierFinalLeave(p)
    \/ Shutdown(p)
    \/ Finalize(p)

Next == \E p \in Procs : Step(p) \/ Kill(p)

Spec == Init /\ [][Next]_vars

\* Every rank that can take a step eventually does: the ranks are separate
\* operating-system processes.
FairSpec == Spec /\ \A p \in Procs : WF_vars(Step(p)) /\ WF_vars(Kill(p))

\* ------------------------------------------------------------------------
\* parse_arguments on a wider range of --wait-range and --product-sizes
\* values, every rank being started with the same command line.

DigitChar(d) ==
    CASE d = 0 -> "0" [] d = 1 -> "1" [] d = 2 -> "2" [] d = 3 -> "3"
      [] d = 4 -> "4" [] d = 5 -> "5" [] d = 6 -> "6" [] d = 7 -> "7"
      [] d = 8 -> "8" [] d = 9 -> "9"

RECURSIVE Numeral(_)
\* The decimal numeral of the natural number a.
Numeral(a) ==
    IF a < 10 THEN <<DigitChar(a)>>
    ELSE Append(Numeral(a \div 10), DigitChar(a % 10))

\* A number <<a, f>>: integer part a, fraction digits f.
WaitNumbers ==
    ((0 .. MaxWaitInt) \cup {10})
        \X UNION {[1 .. n -> {0, 5}] : n \in 0 .. MaxFrac}

NumStr(n) ==
    Numeral(n[1]) \o
    (IF n[2] = << >> THEN << >>
     ELSE <<".">> \o [i \in 1 .. Len(n[2]) |-> DigitChar(n[2][i])])

RECURSIVE FracVal(_, _)
FracVal(f, i) ==
    IF i > Len(f) THEN 0 ELSE f[i] * Pow10(MaxFrac - i) + FracVal(f, i + 1)

\* The value of a number, in units of 10^-MaxFrac.
NumVal(n) == n[1] * Pow10(MaxFrac) + FracVal(n[2], 1)

\* The strings "x" and "x,y" with the range each denotes.
WaitCases ==
    {[str |-> NumStr(x), first |-> NumVal(x), second |-> NumVal(x)] :
        x \in WaitNumbers}
    \cup
    {[str |-> NumStr(xy[1]) \o <<",">> \o NumStr(xy[2]),
      first |-> NumVal(xy[1]), second |-> NumVal(xy[2])] :
        xy \in WaitNumbers \X WaitNumbers}

WaitExpected ==
    [w \in {c.str : c \in WaitCases} |-> CHOOSE c \in WaitCases : c.str = w]

\* Strings the regular expression rejects.
WaitJunk == {<<"x">>, <<"0", "1">>, <<"1", ",">>, <<"1", ".">>, <<",", "1">>}

SizeAlphabet == {"0", "1", ",", "x"}
SizeStrings == UNION {[1 .. n -> SizeAlphabet] : n \in 0 .. MaxSizeLen}

ParseArgvSet ==
    {[accepted |-> TRUE, sizes |-> S_2_0, wait |-> w, verbose |-> "info",
      label |-> L_p] : w \in DOMAIN WaitExpected \cup WaitJunk}
    \cup
    {[accepted |-> TRUE, sizes |-> z, wait |-> W_0_0, verbose |-> "info",
      label |-> L_p] : z \in SizeStrings}

\* The state main starts in when every rank is given the same command
\* line, one of A.
SameArgvInit(A) ==
    /\ \E a \in A : argv = [p \in Procs |-> a]
    /\ pc = [p \in Procs |-> "parse"]
    /\ g_product_sizes = [p \in Procs |-> << >>]
    /\ g_product_label = [p \in Procs |-> << >>]
    /\ g_wait_range = [p \in Procs |-> <<0, 0>>]
    /\ g_logging_level = [p \in Procs |-> "trace"]
    /\ log = [p \in Procs |-> << >>]
    /\ colls = [p \in Procs |-> << >>]
    /\ abortCalled = FALSE
    /\ connected = [p \in Procs |-> FALSE]
    /\ asyncAlive = [p \in Procs |-> FALSE]
    /\ createdBy = << >>
    /\ run_descriptor = [p \in Procs |-> Uninit]
    /\ bcast_buf = Uninit
    /\ run = [p \in Procs |-> NoRun]
    /\ subrun = [p \in Procs |-> NoSubRun]
    /\ products = [p \in Procs |-> << >>]
    /\ evn = [p \in Procs |-> 0]
    /\ tmp_product = [p \in Procs |-> << >>]
    /\ db = {}
    /\ shutdownBy = << >>
    /\ g_mte = [p \in Procs |-> DefaultSeed]
    /\ calls = [p \in Procs |-> << >>]

InitParse == SameArgvInit(ParseArgvSet)

NextParse == \E p \in Procs : ParseArguments(p)

ParseSpec == InitParse /\ [][NextParse]_vars

\* ------------------------------------------------------------------------
\* The whole program on valid command lines that differ in the sizes and in
\* the wait range.

S_257 == <<"2", "5", "7">>
S_1_3 == <<"1", ",", "3">>

GenArgvSet ==
    {[accepted |-> TRUE, sizes |-> z, wait |-> w, verbose |-> "info",
      label |-> L_p] : z \in {S_empty, S_2_0, S_257, S_1_3}, w \in {W_0_0, W_1p5}}

InitGen == SameArgvInit(GenArgvSet)

GenSpec == InitGen /\ [][Next]_vars

\* ------------------------------------------------------------------------
\* Properties

\* What rank p has logged.
Criticals(p) == {i \in 1 .. Len(log[p]) : log[p][i].lvl = "critical"}
HasCritical(p, msg) ==
    \E i \in 1 .. Len(log[p]) : log[p][i].lvl = "critical" /\ log[p][i].msg = msg

\* Completed event.store / event.load calls of rank p (one report each).
StoresDone(p) ==
    Cardinality({i \in 1 .. Len(log[p]) :
                    log[p][i].lvl = "info" /\ log[p][i].msg[1] = "store"})
LoadsDone(p) ==
    Cardinality({i \in 1 .. Len(log[p]) :
                    log[p][i].lvl = "info" /\ log[p][i].msg[1] = "load"})
Mismatches(p) == {i \in 1 .. Len(log[p]) : log[p][i].lvl = "error"}

\* Rank q has left its store loop with every product stored: it has called
\* its fourth collective, the barrier of line 207.
StoreLoopFinished(q) ==
    /\ Len(colls[q]) >= 4
    /\ StoresDone(q) = Len(g_product_sizes[q])

\* A command line that passes every validation of parse_arguments.
ValidArgv(a) ==
    /\ a.accepted
    /\ RegexMatches(a.wait)
    /\ RangeOf(a.wait)[1] <= RangeOf(a.wait)[2]

AllCollectives == <<"barrier", "bcast", "barrier", "barrier", "barrier">>

AllDone == \A p \in Procs : pc[p] = "done"
SomeFailure == abortCalled \/ \E p \in Procs : pc[p] = "crashed"

\* C1: store/load phase separation.  Whenever a rank p is in its load loop
\* or has completed a load, every rank q has left its store loop with all
\* its products stored.
C1_PhaseSeparation ==
    \A p, q \in Procs :
        (pc[p] = "load" \/ LoadsDone(p) > 0) => StoreLoopFinished(q)

C1_Witness ==
    \E p, q \in Procs :
        /\ p # q
        /\ LoadsDone(p) > 0
        /\ StoresDone(q) = 2
        /\ pc[q] = "in_barrier_load" \/ pc[q] = "load"

\* C2: single creation of the shared run.  The dataset and the run are
\* created at most once and only by rank 0; a rank that holds a run handle
\* got it from a descriptor equal to the one rank 0 produced, and all
\* sub-runs lie in the run rank 0 created.
C2_SingleCreation ==
    /\ Len(createdBy) <= 1
    /\ \A i \in 1 .. Len(createdBy) : createdBy[i] = Root
    /\ \A p \in Procs :
          run[p] # NoRun =>
             /\ createdBy = <<Root>>
             /\ run_descriptor[p] = toDescriptor(CreatedRun)
             /\ run[p] = CreatedRun
             /\ subrun[p] = [run |-> CreatedRun, number |-> p]

C2_Witness ==
    /\ createdBy = <<Root>>
    /\ \A p \in Procs : subrun[p] # NoSubRun

\* C3: when createDataSet or createRun fails on rank 0 (rank 0 ends before
\* its broadcast, its second collective), the group has been aborted.
C3_CreateFailureAborts ==
    (pc[Root] = "crashed" /\ Len(colls[Root]) = 1) => abortCalled

\* C4: shutdown ordering.  datastore.shutdown() is called at most once and
\* only by rank 0, only when every rank has completed all its loads, left
\* the AsyncEngine scope and entered the final barrier; and no store or load
\* completes once it has been called.
C4_ShutdownInv ==
    /\ Len(shutdownBy) <= 1
    /\ shutdownBy # << >> =>
          /\ shutdownBy = <<Root>>
          /\ \A p \in Procs :
                /\ Len(colls[p]) = 5
                /\ ~asyncAlive[p]
                /\ pc[p] \notin {"store", "load"}
                /\ LoadsDone(p) = Len(products[p])
                /\ StoresDone(p) = Len(products[p])

C4_ShutdownOrdering ==
    /\ []C4_ShutdownInv
    /\ [][shutdownBy # << >> =>
            /\ db' = db
            /\ \A p \in Procs :
                  StoresDone(p)' = StoresDone(p) /\ LoadsDone(p)' = LoadsDone(p)]_vars

C4_Witness ==
    /\ shutdownBy = <<Root>>
    /\ \A p \in Procs : LoadsDone(p) = 2

\* C5: connection-file check.  A rank whose connection file does not exist
\* aborts the group, and then no rank of the group has connected to the
\* data store nor returned from any collective: a rank is still parsing, is
\* at or inside the initial barrier, or has been terminated.
C5_FileCheck ==
    \A p \in Procs :
        HasCritical(p, "file_does_not_exist") =>
            /\ pc[p] = "aborted"
            /\ abortCalled
            /\ colls[p] = << >>
            /\ \A q \in Procs :
                  /\ ~connected[q]
                  /\ pc[q] \in {"parse", "barrier_init", "in_barrier_init",
                                "aborted", "killed"}
                  /\ Len(colls[q]) <= 1

C5_Witness ==
    \E p, q \in Procs :
        /\ p # Root
        /\ HasCritical(p, "file_does_not_exist")
        /\ pc[q] = "in_barrier_init"

\* C6: no rank calls run_benchmark unless its command line passed every
\* validation.
C6_NoPartialConfig ==
    \A p \in Procs : pc[p] = "connect" => ValidArgv(argv[p])

\* C7: fatal diagnostics are logged by the coordinator only, hence by at
\* most one rank.
C7_SingleDiagnostic ==
    \A p \in Procs : Criticals(p) # {} => p = Root

\* C8: connectivity errors are group-fatal.  A rank on which
\* DataStore::connect failed has aborted the group, and no rank has stored
\* or loaded anything nor left the barrier before the store loop.
C8_ConnectFailure ==
    \A p \in Procs :
        HasCritical(p, "could_not_connect") =>
            /\ pc[p] = "aborted"
            /\ abortCalled
            /\ db = {}
            /\ \A q \in Procs :
                  /\ StoresDone(q) = 0
                  /\ LoadsDone(q) = 0
                  /\ Len(colls[q]) <= 3
                  /\ pc[q] \notin {"store", "load"}

C8_Witness ==
    \E p, q \in Procs :
        /\ HasCritical(p, "could_not_connect")
        /\ pc[q] = "in_barrier_prestore"

\* C9: termination without failures.  When every command line is valid,
\* every execution in which no file check, connection or HEPnOS call fails
\* brings all ranks to the end of main; a rank at the end of main has called
\* the five collectives in order and has stored and loaded exactly one
\* product per configured size (none for the empty list).
C9_Termination ==
    /\ (\A p \in Procs : ValidArgv(argv[p])) ~> (AllDone \/ SomeFailure)
    /\ [](\A p \in Procs :
             pc[p] = "done" =>
                /\ colls[p] = AllCollectives
                /\ StoresDone(p) = Len(g_product_sizes[p])
                /\ LoadsDone(p) = Len(g_product_sizes[p])
                /\ (ValidArgv(argv[p]) =>
                       g_product_sizes[p] = parse_product_sizes(argv[p].sizes)))

C9_Witness ==
    /\ AllDone
    /\ \A p \in Procs : ValidArgv(argv[p])
    /\ \E p \in Procs :
          /\ argv[p].sizes = S_empty
          /\ StoresDone(p) = 0
          /\ LoadsDone(p) = 0
          /\ colls[p] = AllCollectives

\* C10: a mismatch is not fatal.  The step in which rank p logs a mismatch
\* for event i leaves p in the load loop at event i + 1, aborts nothing and
\* changes nothing of the other ranks; a rank that logged a mismatch reaches
\* the end of main unless some HEPnOS call throws, and has then loaded every
\* product.
C10_MismatchNotFatal ==
    /\ [][\A p \in Procs :
            Cardinality(Mismatches(p))' > Cardinality(Mismatches(p)) =>
               /\ pc[p] = "load" /\ pc'[p] = "load"
               /\ evn'[p] = evn[p] + 1
               /\ LoadsDone(p)' = LoadsDone(p) + 1
               /\ abortCalled' = abortCalled
               /\ \A q \in Procs \ {p} :
                     /\ pc'[q] = pc[q]
                     /\ log'[q] = log[q]
                     /\ evn'[q] = evn[q]]_vars
    /\ [](\A p \in Procs : Mismatches(p) # {} => ~abortCalled /\ pc[p] # "killed")
    /\ \A p \in Procs :
          (Mismatches(p) # {}) ~>
              (pc[p] = "done" \/ \E q \in Procs : pc[q] = "crashed")
    /\ [](\A p \in Procs : pc[p] = "done" => LoadsDone(p) = Len(products[p]))

C10_Witness ==
    \E p \in Procs :
        /\ pc[p] = "done"
        /\ \E i \in Mismatches(p) : log[p][i].msg = <<"mismatch", 0>>
        /\ LoadsDone(p) = 2
        /\ \E q \in Procs \ {p} : pc[q] = "done" /\ Mismatches(q) = {}

\* The calls of rank p to the service, by kind.
IsCreateSubRun(c) == c.op = "createSubRun"
IsStore(c) == c.op = "store"
IsLoad(c) == c.op = "load"
SubRunCalls(p) == SelectSeq(calls[p], IsCreateSubRun)
StoreCalls(p) == SelectSeq(calls[p], IsStore)
LoadCalls(p) == SelectSeq(calls[p], IsLoad)
DataCalls(p) == {i \in 1 .. Len(calls[p]) : IsStore(calls[p][i]) \/ IsLoad(calls[p][i])}

\* C11: partitioning by rank.  Every rank creates at most one sub-run, and
\* exactly one once it is past line 184, numbered by its rank; every store
\* and load of a rank uses a key under that sub-run; no key is used by two
\* distinct ranks, and the service holds one entry per completed store.
C11_Partitioning ==
    /\ \A p \in Procs :
          /\ Len(SubRunCalls(p)) <= 1
          /\ \A i \in 1 .. Len(SubRunCalls(p)) : SubRunCalls(p)[i].key.number = p
          /\ subrun[p] # NoSubRun =>
                /\ Len(SubRunCalls(p)) = 1
                /\ SubRunCalls(p)[1].key = subrun[p]
                /\ subrun[p].number = p
          /\ \A i \in DataCalls(p) :
                /\ calls[p][i].key[1] = subrun[p]
                /\ calls[p][i].key[1].number = p
          /\ Cardinality({x \in db : x[1].number = p}) = StoresDone(p)
    /\ \A p, q \in Procs :
          p # q =>
             \A i \in DataCalls(p), j \in DataCalls(q) :
                calls[p][i].key # calls[q][j].key

C11_Witness ==
    \E p, q \in Procs :
        /\ p # q
        /\ Len(LoadCalls(p)) = 2
        /\ Len(LoadCalls(q)) = 2
        /\ LoadCalls(p)[1].key[2] = LoadCalls(q)[1].key[2]

HasMismatch(p, e) ==
    \E k \in Mismatches(p) : log[p][k].msg = <<"mismatch", e>>

\* C12: event sequencing.  With n configured sizes, the stores of a rank
\* are at events 0, 1, .. in that order, the i-th with the product of
\* length sizes[i], the loads are at events 0, 1, .. in that order, after
\* all n stores, both under the configured label; the product of the i-th
\* load is compared with the i-th original product; a rank at the end of
\* main has made exactly n stores and n loads.
C12_EventSequencing ==
    \A p \in Procs :
        LET n  == Len(g_product_sizes[p])
            st == StoreCalls(p)
            ld == LoadCalls(p)
        IN  /\ Len(st) <= n
            /\ Len(ld) <= n
            /\ \A i \in 1 .. Len(st) :
                  /\ st[i].key[2] = i - 1
                  /\ st[i].key[3] = g_product_label[p]
                  /\ st[i].product = products[p][i]
                  /\ Len(st[i].product) = g_product_sizes[p][i]
            /\ \A i \in 1 .. Len(ld) :
                  /\ ld[i].key[2] = i - 1
                  /\ ld[i].key[3] = g_product_label[p]
                  /\ ld[i].key = st[i].key
                  /\ HasMismatch(p, i - 1) <=> (ld[i].product # products[p][i])
            /\ Len(ld) > 0 => Len(st) = n
            /\ \A i, j \in 1 .. Len(calls[p]) :
                  (IsLoad(calls[p][i]) /\ IsStore(calls[p][j])) => j < i
            /\ (st # << >> /\ argv[p].accepted) =>
                  /\ g_product_label[p] = argv[p].label
                  /\ g_product_sizes[p] = parse_product_sizes(argv[p].sizes)
            /\ pc[p] = "done" => (Len(st) = n /\ Len(ld) = n)

C12_Witness ==
    \E p \in Procs :
        /\ pc[p] = "done"
        /\ Len(StoreCalls(p)) = 2
        /\ Len(LoadCalls(p)) = 2
        /\ LoadCalls(p)[2].key[2] = 1

\* The service returned for the load call c the product it holds under the
\* key of c.
Faithful(c) == (c.key \o <<c.product>>) \in db

\* C13: round trip.  A load for which the service returns the product it
\* holds under the key yields the product the same rank stored at that
\* event number, which is the original product, and logs no mismatch; when
\* every load of every rank is answered so, no rank has logged a mismatch.
C13_RoundTrip ==
    /\ \A p \in Procs :
          \A i \in 1 .. Len(LoadCalls(p)) :
             Faithful(LoadCalls(p)[i]) =>
                /\ i <= Len(StoreCalls(p))
                /\ LoadCalls(p)[i].product = StoreCalls(p)[i].product
                /\ LoadCalls(p)[i].product = products[p][i]
                /\ ~HasMismatch(p, i - 1)
    /\ (\A p \in Procs : \A i \in 1 .. Len(LoadCalls(p)) : Faithful(LoadCalls(p)[i]))
          => \A p \in Procs : Mismatches(p) = {}

C13_Witness ==
    /\ AllDone
    /\ \A p \in Procs :
          /\ Len(LoadCalls(p)) = 2
          /\ \A i \in 1 .. 2 : Faithful(LoadCalls(p)[i])
          /\ Mismatches(p) = {}

\* Per-record report lines of rank p that were let through, and aggregate
\* completion messages.
ShownReports(p) ==
    {i \in 1 .. Len(log[p]) :
        /\ log[p][i].lvl = "info"
        /\ log[p][i].msg[1] \in {"store", "load"}
        /\ log[p][i].shown}
AggregateLines(p) ==
    {i \in 1 .. Len(log[p]) :
        /\ log[p][i].lvl = "info"
        /\ log[p][i].msg[1] = "completed"
        /\ log[p][i].shown}

\* C14: report emission.  A rank at the end of main has either emitted one
\* line per store and per load or, statistics being disabled, emitted no
\* per-record line and one aggregate completion message.
C14_ReportEmission ==
    \A p \in Procs :
        pc[p] = "done" =>
            \/ Cardinality(ShownReports(p)) = Len(StoreCalls(p)) + Len(LoadCalls(p))
            \/ /\ ShownReports(p) = {}
               /\ Cardinality(AggregateLines(p)) = 1

\* C15: wait-range parsing.  For a string "x" or "x,y" denoting the numbers
\* x <= y, a rank that returns from parse_arguments holds the range (x, x)
\* resp. (x, y), and parse_wait_range aborts nothing; for "x,y" with y < x no
\* rank, whatever its number, returns from parse_arguments: a rank that got
\* as far as parse_wait_range logged the order diagnostic and aborted the
\* group.
C15_WaitRange ==
    \A p \in Procs :
        argv[p].wait \in DOMAIN WaitExpected =>
            LET c == WaitExpected[argv[p].wait] IN
            IF c.first <= c.second
            THEN /\ pc[p] = "barrier_init" => g_wait_range[p] = <<c.first, c.second>>
                 /\ pc[p] = "aborted" => HasCritical(p, "file_does_not_exist")
            ELSE /\ pc[p] \in {"parse", "aborted"}
                 /\ (pc[p] = "aborted" /\ ~HasCritical(p, "file_does_not_exist")) =>
                       /\ HasCritical(p, "wait_range_order")
                       /\ abortCalled

C15_Witness ==
    \E p, q \in Procs :
        /\ p # Root
        /\ argv[p].wait = <<"0", ".", "5", ",", "1", "0">>
        /\ pc[p] = "barrier_init"
        /\ g_wait_range[p][1] < g_wait_range[p][2]
        /\ pc[q] = "aborted"

RECURSIVE Split(_)
\* The comma-separated tokens of s.
Split(s) ==
    LET c == FirstPos(s, ",")
    IN  IF c > Len(s) THEN <<s>>
        ELSE <<SubSeq(s, 1, c - 1)>> \o Split(SubSeq(s, c + 1, Len(s)))

WellFormed(t) == t # << >> /\ AllDigits(t)

\* The leading digits of a token.
LeadDigits(t) ==
    LET k == CHOOSE k \in 0 .. Len(t) :
                 /\ \A i \in 1 .. k : t[i] \in Digits
                 /\ k = Len(t) \/ t[k + 1] \notin Digits
    IN  SubSeq(t, 1, k)

\* The sizes of the well-formed tokens, the malformed ones left out.
SkipMalformed(s) ==
    LET good == SelectSeq(Split(s), WellFormed)
    IN  [i \in 1 .. Len(good) |-> DecVal(good[i], 0)]

RECURSIVE UpToMalformed(_)
\* The sizes of the tokens up to the first malformed one, of which the
\* leading digits, if any, still count.
UpToMalformed(ts) ==
    IF ts = << >> THEN << >>
    ELSE IF WellFormed(Head(ts))
    THEN <<DecVal(Head(ts), 0)>> \o UpToMalformed(Tail(ts))
    ELSE IF LeadDigits(Head(ts)) # << >>
    THEN <<DecVal(LeadDigits(Head(ts)), 0)>>
    ELSE << >>

SizesOf(a) == SkipMalformed(a.sizes)

\* Rank p has run the generator of lines 186-193.
Generated(p) == subrun[p] # NoSubRun

\* C17: synthetic record content.  Once a rank has generated its records,
\* there is one record per size of the list S it was given, in order,
\* record i has length S[i] and its byte at offset j is j mod 256; two ranks
\* given the same S hold identical records although their random engines
\* are seeded differently, whatever the wait range.
C17_RecordContent ==
    \A p \in Procs :
        Generated(p) =>
            LET S == SizesOf(argv[p]) IN
            /\ Len(products[p]) = Len(S)
            /\ \A i \in 1 .. Len(S) :
                  /\ Len(products[p][i]) = S[i]
                  /\ \A j \in 0 .. (S[i] - 1) : products[p][i][j + 1] = j % 256
            /\ \A q \in Procs :
                  (Generated(q) /\ SizesOf(argv[q]) = S) => products[q] = products[p]

C17_Witness ==
    \E p, q \in Procs :
        /\ Generated(p) /\ Generated(q)
        /\ g_mte[p] # g_mte[q]
        /\ g_wait_range[p][1] > 0
        /\ Len(products[p]) = 1
        /\ Len(products[p][1]) = 257
        /\ products[p][1][257] = 0
        /\ products[q] = products[p]

\* Rank p is about to call, or has called, Run::fromDescriptor.
AtFromDescriptor(p) == pc[p] = "resolve" \/ run[p] # NoRun \/ subrun[p] # NoSubRun

\* C18: descriptor readiness.  A rank that is about to call or has called
\* Run::fromDescriptor does so after rank 0 finished createDataSet, createRun
\* and toDescriptor, and its descriptor buffer holds the descriptor of the
\* run rank 0 created, never its uninitialised contents; the run and the
\* sub-run it builds are those of that run.
C18_DescriptorReady ==
    \A p \in Procs :
        AtFromDescriptor(p) =>
            /\ createdBy = <<Root>>
            /\ run_descriptor[Root] = toDescriptor(CreatedRun)
            /\ run_descriptor[p] # Uninit
            /\ run_descriptor[p] = run_descriptor[Root]
            /\ run[p] \in {NoRun, CreatedRun}
            /\ subrun[p] # NoSubRun => subrun[p].run = CreatedRun

C18_Witness ==
    \E p \in Procs :
        /\ p # Root
        /\ run[p] = CreatedRun
        /\ subrun[p] = [run |-> CreatedRun, number |-> p]
        /\ run_descriptor[p] = toDescriptor(CreatedRun)

====
